---- MODULE Spec2Model ----
(***************************************************************************)
(* Model of the RAG + web search agent: the vector store, the router, the  *)
(* document agent (query_rag), the web agent (search_web) and the hybrid   *)
(* orchestrator (query_hybrid).  Python dicts are functions from key names *)
(* to values, Python strings are TLA+ strings, external collaborators      *)
(* (Chroma, Serper, the chat model) are nondeterministic choices.          *)
(***************************************************************************)
EXTENDS Integers, Sequences, FiniteSets, TLC

\* ---------------------------------------------------------------- bounds
MaxChunks == 2
MaxOrganic == 2
MaxPad == 1
MaxQuestions == 2

\* ------------------------------------------------------ program constants
TOP_K_RESULTS == 4

\* ------------------------------------------------------------ Python dicts
EmptyDict == [k \in {} |-> ""]

\* d.get(k, default)
Get(d, k, default) == IF k \in DOMAIN d THEN d[k] ELSE default

\* d[k] = v
Put(d, k, v) == [j \in DOMAIN d \cup {k} |-> IF j = k THEN v ELSE d[j]]

\* sep.join(parts)
RECURSIVE Join(_, _)
Join(parts, sep) ==
    IF parts = <<>> THEN ""
    ELSE IF Len(parts) = 1 THEN parts[1]
    ELSE parts[1] \o sep \o Join(Tail(parts), sep)

Min(a, b) == IF a < b THEN a ELSE b

Injective(s) == \A i, j \in DOMAIN s : s[i] = s[j] => i = j

\* the values of a sequence, as a set
Range(s) == {s[i] : i \in DOMAIN s}

\* every ordering of a finite set: what list(set(...)) can produce
Orderings(S) == {p \in [1..Cardinality(S) -> S] : Injective(p)}

\* ------------------------------------------------------------ fixed texts
OPENAI_KEY_ERROR == "OPENAI_API_KEY is not set. Please set it in your .env file."
SERPER_KEY_ERROR == "SERPER_API_KEY is not set. Please set it in your .env file."
SERPER_REQUEST_ERROR == "Serper API request failed: connection error"
CHROMA_ERROR == "vector store query failed"
LLM_ERROR == "chat completion request failed"

NO_DOCUMENTS_ANSWER == "No documents have been uploaded yet. Please upload some documents first to use RAG mode."
NOT_FOUND_ANSWER == "I couldn't find any relevant information in the uploaded documents to answer your question."
NO_RESULTS_SENTINEL == "No search results found."
NO_WEB_RESULTS_ANSWER == "I couldn't find any relevant web search results for your query."
NO_DOC_CONTEXT == "No document context available."
NO_WEB_CONTEXT == "No web search results available."

\* ------------------------------------------------------------------ inputs
Questions == {"What changed in release 2?"}
SourceNames == {"a.pdf", "b.txt"}
ChunkIds == 1..MaxChunks

\* the text of a stored chunk
PageContent(id) == "chunk text " \o ToString(id)

VARIABLES
    store,          \* the Chroma collection: chunk id -> source metadata
    keys,           \* config.py: which API credentials are set
    op,             \* the top-level operation in progress, or "idle"
    question,       \* its question
    auto_route,     \* query_hybrid's auto_route argument
    pc,             \* position in the running operation
    via,            \* how the running agent was entered: direct, routed, fusion
    doc_count,      \* query_hybrid's local doc_count
    route,          \* route_query's return value
    response,       \* route_query's raw classifier response
    retrieved_docs, \* query_rag's local retrieved_docs (chunk ids, in order)
    search_results, \* search_web's local search_results
    formatted_results, \* search_web's local formatted_results
    rag_result,     \* query_hybrid's local rag_result
    web_result,     \* query_hybrid's local web_result
    outcome,        \* "none", "returned" or "raised" for the top-level operation
    result,         \* the dict returned
    exc,            \* the message of the exception raised
    log,            \* the collaborator calls issued by the operation, in order
    messages,       \* st.session_state.messages
    mode            \* st.session_state.mode

vars == <<messages, mode, store, keys, op, question, auto_route, pc, via, doc_count, route,
          response, retrieved_docs, search_results, formatted_results, rag_result, web_result,
          outcome, result, exc, log>>

session == <<messages, mode>>
callState == <<op, question, auto_route>>
routeLocals == <<route, response>>
hybridLocals == <<rag_result, web_result>>
finalState == <<outcome, result, exc>>

\* ------------------------------------------------------------ vector store
\* _collection.count()
Count(s) == Cardinality(DOMAIN s)

\* faulty variant of CountReads: a failure is reported as -1
CountReadsNegative == IF keys.openai THEN {Count(store), -1} ELSE {-1}

\* get_document_count: the count, or 0 when opening or counting fails.
\* Without the OpenAI key get_vector_store raises in get_embeddings_model.
CountReads == IF keys.openai THEN {Count(store), 0} ELSE {0}

\* get_all_sources' set of source names
AllSources(s) == {s[id] : id \in DOMAIN s}

\* faulty variant of IdsToDelete: the source is not compared
IdsToDeleteAny(s, source) == DOMAIN s

\* the ids delete_documents_by_source collects
IdsToDelete(s, source) == {id \in DOMAIN s : s[id] = source}

\* collection.delete(ids=...)
Delete(s, ids) == [id \in DOMAIN s \ ids |-> s[id]]

\* what vector_store.similarity_search can return: the k nearest stored chunks
\* (all of them when fewer than k are stored) in ranking order, or nothing
Retrievals(s, k) ==
    {<<>>} \cup {r \in [1..Min(k, Count(s)) -> DOMAIN s] : Injective(r)}

\* doc.metadata.get("source", "Unknown") for each retrieved chunk
SourceOf(docs) == [i \in DOMAIN docs |-> store[docs[i]]]

\* ------------------------------------------------- outcomes of an operation
\* a bare Python string held in a list that may also hold dicts
PyStr(s) == [str |-> s]

\* what the chat model answers to a filled prompt template
Answer(template) == "<answer to the " \o template \o " prompt>"

\* one step of an operation that reaches a collaborator (the store, the search
\* API, the chat model, or get_llm's credential check), with the value returned
\* or the error raised
Event(call, ok, val) == [call |-> call, ok |-> ok, val |-> val]

\* the top-level operation returns res to its caller
TopReturn(res) ==
    /\ outcome' = "returned"
    /\ result' = res
    /\ exc' = ""
    /\ pc' = "done"

\* the top-level operation raises an exception with this message
TopRaise(msg) ==
    /\ outcome' = "raised"
    /\ result' = EmptyDict
    /\ exc' = msg
    /\ pc' = "done"

\* ---------------------------------------------------------------- query_rag
\* format_context
FormatContext(docs) ==
    Join([i \in DOMAIN docs |->
            "[Document " \o ToString(i) \o " - Source: " \o store[docs[i]] \o "]\n"
            \o PageContent(docs[i]) \o "\n"],
         "\n")

NoDocumentsResult ==
    [answer |-> NO_DOCUMENTS_ANSWER, sources |-> <<>>, context |-> ""]

NotFoundResult ==
    [answer |-> NOT_FOUND_ANSWER, sources |-> <<>>, context |-> ""]

\* the orders list(set(source names)) can come out in
RagSources(docs) == Orderings(Range(SourceOf(docs)))

\* faulty variant of RagFailed: the failed retrieval is still cited
RagFailedCiting(r, msg) ==
    Put(Put(r, "context", "Error retrieving from documents: " \o msg),
        "sources", <<PyStr("a.pdf")>>)

\* query_hybrid's except clause around query_rag
RagFailed(r, msg) == Put(r, "context", "Error retrieving from documents: " \o msg)

\* query_rag returns res: to the caller, to query_hybrid's documents branch,
\* or into the fusion path's rag_result
RagReturn(res) ==
    CASE via = "direct" -> TopReturn(res) /\ UNCHANGED hybridLocals
      [] via = "routed" -> TopReturn(Put(res, "mode", "documents")) /\ UNCHANGED hybridLocals
      [] via = "fusion" -> /\ rag_result' = res
                           /\ pc' = "web_search"
                           /\ UNCHANGED <<web_result, finalState>>

\* faulty variant of RagRaise: no try/except around query_rag
RagRaiseUncaught(msg) == TopRaise(msg) /\ UNCHANGED hybridLocals

\* faulty variant of RagRaise: on the fusion path a first failure of similarity
\* search is retried
RagRaiseRetry(msg) ==
    IF via = "fusion" /\ \A i \in DOMAIN log : log[i].call # "similarity_search"
    THEN pc' = "rag_search" /\ UNCHANGED <<hybridLocals, finalState>>
    ELSE CASE via \in {"direct", "routed"} -> TopRaise(msg) /\ UNCHANGED hybridLocals
           [] via = "fusion" -> /\ rag_result' = RagFailed(rag_result, msg)
                                /\ pc' = "web_search"
                                /\ UNCHANGED <<web_result, finalState>>

\* query_rag raises: propagated, or caught on the fusion path
RagRaise(msg) ==
    CASE via \in {"direct", "routed"} -> TopRaise(msg) /\ UNCHANGED hybridLocals
      [] via = "fusion" -> /\ rag_result' = RagFailed(rag_result, msg)
                           /\ pc' = "web_search"
                           /\ UNCHANGED <<web_result, finalState>>

\* faulty variant of IndexEmpty: the count check never fires
IndexEmptyNever(n) == n < 0

\* query_rag, line 61
IndexEmpty(n) == n = 0

\* query_rag, lines 59-66: the count check
RagCount ==
    /\ pc = "rag_count"
    /\ \E n \in CountReads :
         /\ log' = Append(log, Event("get_document_count", TRUE, n))
         /\ IF IndexEmpty(n)
            THEN RagReturn(NoDocumentsResult)
            ELSE pc' = "rag_search" /\ UNCHANGED <<hybridLocals, finalState>>
    /\ UNCHANGED <<session, store, keys, callState, via, doc_count, routeLocals,
                   retrieved_docs, search_results, formatted_results>>

\* query_rag, lines 68-76: similarity search
RagSearch ==
    /\ pc = "rag_search"
    /\ \E ok \in BOOLEAN :
         IF ok
         THEN \E docs \in Retrievals(store, TOP_K_RESULTS) :
                /\ log' = Append(log, Event("similarity_search", TRUE, docs))
                /\ IF docs = <<>>
                   THEN RagReturn(NotFoundResult) /\ retrieved_docs' = <<>>
                   ELSE /\ retrieved_docs' = docs
                        /\ pc' = "rag_generate"
                        /\ UNCHANGED <<hybridLocals, finalState>>
         ELSE /\ log' = Append(log, Event("similarity_search", FALSE, CHROMA_ERROR))
              /\ RagRaise(CHROMA_ERROR)
              /\ retrieved_docs' = <<>>
    /\ UNCHANGED <<session, store, keys, callState, via, doc_count, routeLocals,
                   search_results, formatted_results>>

\* query_rag, lines 78-103: generation and the result
RagGenerate ==
    /\ pc = "rag_generate"
    /\ IF ~keys.openai
       THEN /\ log' = Append(log, Event("get_llm", FALSE, "rag"))
            /\ RagRaise(OPENAI_KEY_ERROR)
       ELSE \E ok \in BOOLEAN :
              IF ok
              THEN \E sources \in RagSources(retrieved_docs) :
                     /\ log' = Append(log, Event("generate", TRUE, "rag"))
                     /\ RagReturn([answer |-> Answer("rag"),
                                   sources |-> [i \in DOMAIN sources |-> PyStr(sources[i])],
                                   context |-> FormatContext(retrieved_docs)])
              ELSE /\ log' = Append(log, Event("generate", FALSE, "rag"))
                   /\ RagRaise(LLM_ERROR)
    /\ retrieved_docs' = <<>>
    /\ UNCHANGED <<session, store, keys, callState, via, doc_count, routeLocals,
                   search_results, formatted_results>>

\* --------------------------------------------------------------- search_web
\* Python truthiness of a dict
Truthy(d) == DOMAIN d # {}

\* organic results of the search API; title and link may be missing
R1 == [title |-> "Title 1", snippet |-> "snippet 1", link |-> "http://one.example"]
R2 == [snippet |-> "snippet 2"]
OrganicPool == {R1, R2}

Present(v) == [present |-> TRUE, val |-> v]
Missing == [present |-> FALSE, val |-> EmptyDict]

OrganicOptions ==
    {Missing} \cup {Present(o) : o \in UNION {[1..m -> OrganicPool] : m \in 0..MaxOrganic}}

AnswerBoxOptions ==
    {Missing, Present(EmptyDict), Present([answer |-> "42"]),
     Present([answer |-> "", snippet |-> "box snippet"])}

KnowledgeGraphOptions ==
    {Missing, Present([title |-> "KG title"]),
     Present([description |-> "KG description"]),
     Present([title |-> "", description |-> ""])}

WithKey(d, k, opt) == IF opt.present THEN Put(d, k, opt.val) ELSE d

\* the JSON bodies the search API can answer with
SerperResponses ==
    {WithKey(WithKey(WithKey(EmptyDict, "organic", o), "answerBox", a), "knowledgeGraph", g) :
        o \in OrganicOptions, a \in AnswerBoxOptions, g \in KnowledgeGraphOptions}

\* results.get("organic", [])
Organic(results) == Get(results, "organic", <<>>)

\* answer_box.get("answer") or answer_box.get("snippet", "")
BoxAnswer(answer_box) ==
    IF Get(answer_box, "answer", "") # ""
    THEN answer_box["answer"]
    ELSE Get(answer_box, "snippet", "")

\* faulty variant of FormattedParts: the knowledge graph is inserted before the
\* featured answer is, so the featured answer ends up first
FormattedPartsBoxFirst(results) ==
    LET organic == Organic(results)
        parts0 == [i \in DOMAIN organic |->
                     "[Result " \o ToString(i) \o "]\nTitle: "
                     \o Get(organic[i], "title", "No title")
                     \o "\nSnippet: " \o Get(organic[i], "snippet", "No description")
                     \o "\nURL: " \o Get(organic[i], "link", "") \o "\n"]
        knowledge_graph == Get(results, "knowledgeGraph", EmptyDict)
        title == Get(knowledge_graph, "title", "")
        description == Get(knowledge_graph, "description", "")
        parts1 == IF Truthy(knowledge_graph) /\ (title # "" \/ description # "")
                  THEN <<"[Knowledge Graph]\nTitle: " \o title \o "\nDescription: "
                           \o description \o "\n">> \o parts0
                  ELSE parts0
        answer_box == Get(results, "answerBox", EmptyDict)
    IN  IF Truthy(answer_box) /\ BoxAnswer(answer_box) # ""
        THEN <<"[Featured Answer]\n" \o BoxAnswer(answer_box) \o "\n">> \o parts1
        ELSE parts1

\* format_search_results, lines 72-95: formatted_parts
FormattedParts(results) ==
    LET organic == Organic(results)
        parts0 == [i \in DOMAIN organic |->
                     "[Result " \o ToString(i) \o "]\nTitle: "
                     \o Get(organic[i], "title", "No title")
                     \o "\nSnippet: " \o Get(organic[i], "snippet", "No description")
                     \o "\nURL: " \o Get(organic[i], "link", "") \o "\n"]
        answer_box == Get(results, "answerBox", EmptyDict)
        parts1 == IF Truthy(answer_box) /\ BoxAnswer(answer_box) # ""
                  THEN <<"[Featured Answer]\n" \o BoxAnswer(answer_box) \o "\n">> \o parts0
                  ELSE parts0
        knowledge_graph == Get(results, "knowledgeGraph", EmptyDict)
        title == Get(knowledge_graph, "title", "")
        description == Get(knowledge_graph, "description", "")
    IN  IF Truthy(knowledge_graph) /\ (title # "" \/ description # "")
        THEN <<"[Knowledge Graph]\nTitle: " \o title \o "\nDescription: "
                 \o description \o "\n">> \o parts1
        ELSE parts1

\* faulty variant of FormatSearchResults: without organic results nothing is
\* reported, whatever the featured answer and the knowledge graph hold
FormatOrganicOnly(results) ==
    IF Organic(results) # <<>>
    THEN Join(FormattedParts(results), "\n")
    ELSE NO_RESULTS_SENTINEL

\* format_search_results
FormatSearchResults(results) ==
    IF FormattedParts(results) # <<>>
    THEN Join(FormattedParts(results), "\n")
    ELSE NO_RESULTS_SENTINEL

\* extract_sources
ExtractSources(results) ==
    [i \in DOMAIN Organic(results) |->
        [title |-> Get(Organic(results)[i], "title", "Unknown"),
         url |-> Get(Organic(results)[i], "link", "")]]

\* search_web, lines 127-132: the result when nothing was found
NoWebResults(results) ==
    [answer |-> NO_WEB_RESULTS_ANSWER, sources |-> <<>>, raw_results |-> results]

\* query_hybrid's except clause around search_web
WebFailed(r, msg) == Put(r, "answer", "Error searching web: " \o msg)

\* search_web returns res: to the caller, to query_hybrid's web branch, or into
\* the fusion path's web_result
WebReturn(res) ==
    CASE via = "direct" -> TopReturn(res) /\ UNCHANGED hybridLocals
      [] via = "routed" -> TopReturn(Put(res, "mode", "web")) /\ UNCHANGED hybridLocals
      [] via = "fusion" -> /\ web_result' = res
                           /\ pc' = "fusion_generate"
                           /\ UNCHANGED <<rag_result, finalState>>

\* faulty variant of WebRaise: the error is turned into an answer on every path
WebRaiseAbsorbed(msg) == WebReturn(WebFailed([answer |-> "", sources |-> <<>>, raw_results |-> EmptyDict], msg))

\* search_web raises: propagated, or caught on the fusion path
WebRaise(msg) ==
    CASE via \in {"direct", "routed"} -> TopRaise(msg) /\ UNCHANGED hybridLocals
      [] via = "fusion" -> /\ web_result' = WebFailed(web_result, msg)
                           /\ pc' = "fusion_generate"
                           /\ UNCHANGED <<rag_result, finalState>>

\* search_web, lines 121-132: search_serper, formatting, the sentinel check
WebSearch ==
    /\ pc = "web_search"
    /\ IF ~keys.serper
       THEN /\ log' = Append(log, Event("search_serper", FALSE, SERPER_KEY_ERROR))
            /\ WebRaise(SERPER_KEY_ERROR)
            /\ search_results' = EmptyDict
            /\ formatted_results' = ""
       ELSE \E ok \in BOOLEAN :
              IF ok
              THEN \E r \in SerperResponses :
                     /\ log' = Append(log, Event("search_serper", TRUE, r))
                     /\ IF FormatSearchResults(r) = NO_RESULTS_SENTINEL
                        THEN /\ WebReturn(NoWebResults(r))
                             /\ search_results' = EmptyDict
                             /\ formatted_results' = ""
                        ELSE /\ search_results' = r
                             /\ formatted_results' = FormatSearchResults(r)
                             /\ pc' = "web_generate"
                             /\ UNCHANGED <<hybridLocals, finalState>>
              ELSE /\ log' = Append(log, Event("search_serper", FALSE, SERPER_REQUEST_ERROR))
                   /\ WebRaise(SERPER_REQUEST_ERROR)
                   /\ search_results' = EmptyDict
                   /\ formatted_results' = ""
    /\ UNCHANGED <<session, store, keys, callState, via, doc_count, routeLocals, retrieved_docs>>

\* search_web, lines 134-153: generation and the result
WebGenerate ==
    /\ pc = "web_generate"
    /\ IF ~keys.openai
       THEN /\ log' = Append(log, Event("get_llm", FALSE, "web"))
            /\ WebRaise(OPENAI_KEY_ERROR)
       ELSE \E ok \in BOOLEAN :
              IF ok
              THEN /\ log' = Append(log, Event("generate", TRUE, "web"))
                   /\ WebReturn([answer |-> Answer("web"),
                                 sources |-> ExtractSources(search_results),
                                 raw_results |-> search_results])
              ELSE /\ log' = Append(log, Event("generate", FALSE, "web"))
                   /\ WebRaise(LLM_ERROR)
    /\ search_results' = EmptyDict
    /\ formatted_results' = ""
    /\ UNCHANGED <<session, store, keys, callState, via, doc_count, routeLocals, retrieved_docs>>

\* -------------------------------------------------------------- route_query
\* classifier responses are sequences of characters
UpperCase == <<"A", "B", "C", "D", "E", "F", "G", "H", "I", "J", "K", "L", "M",
               "N", "O", "P", "Q", "R", "S", "T", "U", "V", "W", "X", "Y", "Z">>
LowerCase == <<"a", "b", "c", "d", "e", "f", "g", "h", "i", "j", "k", "l", "m",
               "n", "o", "p", "q", "r", "s", "t", "u", "v", "w", "x", "y", "z">>
Whitespace == {" ", "\t", "\n", "\r"}

LowerChar(c) ==
    IF \E i \in DOMAIN UpperCase : UpperCase[i] = c
    THEN LowerCase[CHOOSE i \in DOMAIN UpperCase : UpperCase[i] = c]
    ELSE c

UpperChar(c) ==
    IF \E i \in DOMAIN LowerCase : LowerCase[i] = c
    THEN UpperCase[CHOOSE i \in DOMAIN LowerCase : LowerCase[i] = c]
    ELSE c

\* str.lower()
Lower(s) == [i \in DOMAIN s |-> LowerChar(s[i])]

\* str.strip()
RECURSIVE LStrip(_)
LStrip(s) == IF s # <<>> /\ Head(s) \in Whitespace THEN LStrip(Tail(s)) ELSE s

RECURSIVE RStrip(_)
RStrip(s) ==
    IF s # <<>> /\ s[Len(s)] \in Whitespace THEN RStrip(SubSeq(s, 1, Len(s) - 1)) ELSE s

Strip(s) == RStrip(LStrip(s))

\* the characters as one string
Text(s) == Join(s, "")

DOCUMENTS == <<"d", "o", "c", "u", "m", "e", "n", "t", "s">>
WEB == <<"w", "e", "b">>
HYBRID == <<"h", "y", "b", "r", "i", "d">>
Labels == {DOCUMENTS, WEB, HYBRID}

Upper(s) == [i \in DOMAIN s |-> UpperChar(s[i])]
Capitalize(s) == [i \in DOMAIN s |-> IF i = 1 THEN UpperChar(s[i]) ELSE s[i]]

\* what the classifier can answer, before padding
Cores ==
    Labels \cup {Upper(l) : l \in Labels} \cup {Capitalize(l) : l \in Labels}
    \cup {<<>>, WEB \o <<".">>, WEB \o <<" ">> \o HYBRID, <<"d", "o", "c", "s">>,
          <<"\"">> \o HYBRID \o <<"\"">>}

Pads == UNION {[1..m -> {" ", "\n"}] : m \in 0..MaxPad}

Responses == {l \o c \o r : l \in Pads, c \in Cores, r \in Pads}

\* faulty variant of HasDocuments: an empty index counts as having documents
HasDocumentsAlways(n) == n >= 0

\* route_query, line 75
HasDocuments(n) == n > 0

\* faulty variant of Normalize: the response is trimmed but not lowercased
NormalizeKeepCase(resp) == Text(Strip(resp))

\* route_query, line 93
Normalize(resp) == Text(Lower(Strip(resp)))

\* route_query, lines 96-100
ValidateRoute(r) == IF r \in {"documents", "web", "hybrid"} THEN r ELSE "hybrid"

\* route_query, lines 74-80: the count read and the short-circuit
RouteCount ==
    /\ pc = "route_count"
    /\ \E n \in CountReads :
         /\ log' = Append(log, Event("get_document_count", TRUE, n))
         /\ IF HasDocuments(n)
            THEN pc' = "route_sources" /\ UNCHANGED route
            ELSE pc' = "dispatch" /\ route' = "web"
    /\ UNCHANGED <<session, store, keys, callState, via, doc_count, response, retrieved_docs,
                   search_results, formatted_results, hybridLocals, finalState>>

\* route_query, line 76: get_all_sources, [] when it fails
RouteSources ==
    /\ pc = "route_sources"
    /\ log' = Append(log, Event("get_all_sources", TRUE, "source names"))
    /\ pc' = "route_classify"
    /\ UNCHANGED <<session, store, keys, callState, via, doc_count, routeLocals, retrieved_docs,
                   search_results, formatted_results, hybridLocals, finalState>>

\* route_query, lines 82-100: the classification call and its validation
RouteClassify ==
    /\ pc = "route_classify"
    /\ IF ~keys.openai
       THEN /\ log' = Append(log, Event("get_llm", FALSE, "router"))
            /\ TopRaise(OPENAI_KEY_ERROR)
            /\ UNCHANGED routeLocals
       ELSE \E ok \in BOOLEAN :
              IF ok
              THEN \E resp \in Responses :
                     /\ log' = Append(log, Event("classify", TRUE, "router"))
                     /\ response' = resp
                     /\ route' = ValidateRoute(Normalize(resp))
                     /\ pc' = "dispatch"
                     /\ UNCHANGED finalState
              ELSE /\ log' = Append(log, Event("classify", FALSE, "router"))
                   /\ TopRaise(LLM_ERROR)
                   /\ UNCHANGED routeLocals
    /\ UNCHANGED <<session, store, keys, callState, via, doc_count, retrieved_docs,
                   search_results, formatted_results, hybridLocals>>

\* ------------------------------------------------------------- query_hybrid
InitialRagResult == [answer |-> "", sources |-> <<>>, context |-> ""]
InitialWebResult == [answer |-> "", sources |-> <<>>, raw_results |-> EmptyDict]

\* query_hybrid, line 114
HybridCount ==
    /\ pc = "hybrid_count"
    /\ \E n \in CountReads :
         /\ log' = Append(log, Event("get_document_count", TRUE, n))
         /\ doc_count' = n
    /\ pc' = IF auto_route THEN "route_count" ELSE "fusion"
    /\ UNCHANGED <<session, store, keys, callState, via, routeLocals, retrieved_docs,
                   search_results, formatted_results, hybridLocals, finalState>>

\* faulty variant of Dispatch: the "web" branch is missing
DispatchWithoutWeb ==
    /\ pc = "dispatch"
    /\ CASE route = "documents" -> via' = "routed" /\ pc' = "rag_count"
         [] OTHER -> via' = via /\ pc' = "fusion"
    /\ response' = <<>>
    /\ UNCHANGED <<session, store, keys, callState, doc_count, route, retrieved_docs,
                   search_results, formatted_results, hybridLocals, finalState, log>>

\* query_hybrid, lines 116-126: delegate to one agent, or fall through
Dispatch ==
    /\ pc = "dispatch"
    /\ CASE route = "documents" -> via' = "routed" /\ pc' = "rag_count"
         [] route = "web" -> via' = "routed" /\ pc' = "web_search"
         [] OTHER -> via' = via /\ pc' = "fusion"
    /\ response' = <<>>
    /\ UNCHANGED <<session, store, keys, callState, doc_count, route, retrieved_docs,
                   search_results, formatted_results, hybridLocals, finalState, log>>

\* query_hybrid, lines 128-133: the fusion path starts
Fusion ==
    /\ pc = "fusion"
    /\ rag_result' = InitialRagResult
    /\ web_result' = InitialWebResult
    /\ via' = "fusion"
    /\ pc' = IF doc_count > 0 THEN "rag_count" ELSE "web_search"
    /\ UNCHANGED <<session, store, keys, callState, doc_count, routeLocals, retrieved_docs,
                   search_results, formatted_results, finalState, log>>

\* query_hybrid, lines 146-147
RagContext(r) == Get(r, "context", NO_DOC_CONTEXT)
WebContext(w) == Get(w, "answer", NO_WEB_CONTEXT)

\* faulty variant of AllSourcesOf: the web entries are appended first
AllSourcesWebFirst(r, w) ==
    [i \in DOMAIN Get(w, "sources", <<>>) |->
        [type |-> "web",
         title |-> Get(Get(w, "sources", <<>>)[i], "title", ""),
         url |-> Get(Get(w, "sources", <<>>)[i], "url", "")]]
    \o
    [i \in DOMAIN Get(r, "sources", <<>>) |->
        [type |-> "document", name |-> Get(r, "sources", <<>>)[i].str]]

\* query_hybrid, lines 159-172
AllSourcesOf(r, w) ==
    [i \in DOMAIN Get(r, "sources", <<>>) |->
        [type |-> "document", name |-> Get(r, "sources", <<>>)[i].str]]
    \o
    [i \in DOMAIN Get(w, "sources", <<>>) |->
        [type |-> "web",
         title |-> Get(Get(w, "sources", <<>>)[i], "title", ""),
         url |-> Get(Get(w, "sources", <<>>)[i], "url", "")]]

\* query_hybrid, lines 174-180
HybridResult(r, w) ==
    [answer |-> Answer("hybrid"),
     sources |-> AllSourcesOf(r, w),
     mode |-> "hybrid",
     rag_context |-> RagContext(r),
     web_results |-> Get(w, "raw_results", EmptyDict)]

\* query_hybrid, lines 145-180: the fusion generation and the merged result
FusionGenerate ==
    /\ pc = "fusion_generate"
    /\ IF ~keys.openai
       THEN /\ log' = Append(log, Event("get_llm", FALSE, "hybrid"))
            /\ TopRaise(OPENAI_KEY_ERROR)
       ELSE \E ok \in BOOLEAN :
              IF ok
              THEN /\ log' = Append(log, Event("generate", TRUE, "hybrid"))
                   /\ TopReturn(HybridResult(rag_result, web_result))
              ELSE /\ log' = Append(log, Event("generate", FALSE, "hybrid"))
                   /\ TopRaise(LLM_ERROR)
    /\ UNCHANGED <<session, store, keys, callState, via, doc_count, routeLocals, retrieved_docs,
                   search_results, formatted_results, hybridLocals>>

\* ------------------------------------------------------ calls and the store
Idle == op = "idle"

\* the last message of the session is a question that has no reply yet
Pending == messages # <<>> /\ messages[Len(messages)].role = "user"

\* the locals of an operation that is not running
NoLocals ==
    /\ doc_count = 0
    /\ route = ""
    /\ response = <<>>
    /\ retrieved_docs = <<>>
    /\ search_results = EmptyDict
    /\ formatted_results = ""
    /\ rag_result = EmptyDict
    /\ web_result = EmptyDict
    /\ outcome = "none"
    /\ result = EmptyDict
    /\ exc = ""
    /\ log = <<>>

locals == <<doc_count, route, response, retrieved_docs,
                   search_results, formatted_results, rag_result,
            web_result, outcome, result, exc, log>>

\* query_rag(question) is called
CallQueryRag ==
    /\ Idle
    /\ \E q \in Questions : question' = q
    /\ op' = "query_rag"
    /\ via' = "direct"
    /\ pc' = "rag_count"
    /\ UNCHANGED <<session, store, keys, auto_route, locals>>

\* search_web(question) is called
CallSearchWeb ==
    /\ Idle
    /\ \E q \in Questions : question' = q
    /\ op' = "search_web"
    /\ via' = "direct"
    /\ pc' = "web_search"
    /\ UNCHANGED <<session, store, keys, auto_route, locals>>

\* query_hybrid(question, auto_route) is called
CallQueryHybrid ==
    /\ Idle
    /\ \E q \in Questions : question' = q
    /\ \E a \in BOOLEAN : auto_route' = a
    /\ op' = "query_hybrid"
    /\ via' = "direct"
    /\ pc' = "hybrid_count"
    /\ UNCHANGED <<session, store, keys, locals>>

\* the caller has the result or the exception; the locals are gone
Finish ==
    /\ pc = "done"
    /\ ~Pending
    /\ op' = "idle"
    /\ pc' = "idle"
    /\ via' = "direct"
    /\ question' = ""
    /\ auto_route' = TRUE
    /\ doc_count' = 0
    /\ route' = ""
    /\ response' = <<>>
    /\ retrieved_docs' = <<>>
    /\ search_results' = EmptyDict
    /\ formatted_results' = ""
    /\ rag_result' = EmptyDict
    /\ web_result' = EmptyDict
    /\ outcome' = "none"
    /\ result' = EmptyDict
    /\ exc' = ""
    /\ log' = <<>>
    /\ UNCHANGED <<session, store, keys>>

\* add_documents: the chunks of one uploaded file get fresh ids
AddDocuments ==
    /\ Idle
    /\ keys.openai
    /\ \E source \in SourceNames, n \in 1..MaxChunks :
         /\ Count(store) + n <= MaxChunks
         /\ LET free == ChunkIds \ DOMAIN store
                new == CHOOSE ids \in SUBSET free :
                         /\ Cardinality(ids) = n
                         /\ \A i \in ids, j \in free \ ids : i < j
            IN  store' = [id \in DOMAIN store \cup new |->
                            IF id \in new THEN source ELSE store[id]]
    /\ UNCHANGED <<session, keys, callState, pc, via, locals>>

\* delete_documents_by_source; the call is noted with its argument and the
\* collection it found
DeleteDocumentsBySource ==
    /\ Idle
    /\ keys.openai
    /\ \E source \in SourceNames :
         /\ store' = IF IdsToDelete(store, source) # {}
                     THEN Delete(store, IdsToDelete(store, source))
                     ELSE store
         /\ log' = <<Event("delete_documents_by_source", TRUE,
                           [source |-> source, before |-> store])>>
    /\ op' = "delete_documents_by_source"
    /\ pc' = "done"
    /\ UNCHANGED <<session, keys, question, auto_route, via, doc_count, route, response,
                   retrieved_docs, search_results, formatted_results, rag_result,
                   web_result, outcome, result, exc>>

\* clear_all_documents
ClearAllDocuments ==
    /\ Idle
    /\ keys.openai
    /\ store' = Delete(store, DOMAIN store)
    /\ UNCHANGED <<session, keys, callState, pc, via, locals>>

\* --------------------------------------------------------- the specification
EmptyStore == [id \in {} |-> ""]

\* the persist directory is new, or holds a chunk of an earlier run
PersistedStores == {EmptyStore, [id \in {1} |-> "a.pdf"]}

Init ==
    /\ messages = <<>>
    /\ mode = "hybrid"
    /\ store \in PersistedStores
    /\ keys \in [openai : BOOLEAN, serper : BOOLEAN]
    /\ op = "idle"
    /\ pc = "idle"
    /\ via = "direct"
    /\ question = ""
    /\ auto_route = TRUE
    /\ NoLocals

Next ==
    \/ CallQueryRag
    \/ CallSearchWeb
    \/ CallQueryHybrid
    \/ RagCount
    \/ RagSearch
    \/ RagGenerate
    \/ WebSearch
    \/ WebGenerate
    \/ HybridCount
    \/ RouteCount
    \/ RouteSources
    \/ RouteClassify
    \/ Dispatch
    \/ Fusion
    \/ FusionGenerate
    \/ Finish
    \/ AddDocuments
    \/ DeleteDocumentsBySource
    \/ ClearAllDocuments

Spec == Init /\ [][Next]_vars

\* ---------------------------------------------------------------------- app
\* the values of the sidebar's mode selector
Modes == {"rag", "web", "hybrid"}

\* render_sidebar: the mode selector is changed
SelectMode ==
    /\ Idle
    /\ \E m \in Modes \ {mode} : mode' = m
    /\ UNCHANGED <<messages, store, keys, callState, pc, via, locals>>

\* render_chat_interface, lines 278-299: a question is typed in; it is added to
\* the messages and the agent of the selected mode is called
SubmitQuestion ==
    /\ Idle
    /\ Len(messages) < 2 * MaxQuestions
    /\ \E q \in Questions :
         /\ question' = q
         /\ messages' = Append(messages, [role |-> "user", content |-> q])
    /\ auto_route' = TRUE
    /\ via' = "direct"
    /\ op' = CASE mode = "rag" -> "query_rag"
              [] mode = "web" -> "search_web"
              [] OTHER -> "query_hybrid"
    /\ pc' = CASE mode = "rag" -> "rag_count"
              [] mode = "web" -> "web_search"
              [] OTHER -> "hybrid_count"
    /\ UNCHANGED <<mode, store, keys, locals>>

\* lines 301-303 and 325-330: the message saved for a result
AnswerMessage(res, m) ==
    [role |-> "assistant",
     content |-> Get(res, "answer", "I couldn't generate a response."),
     sources |-> Get(res, "sources", <<>>),
     mode |-> Get(res, "mode", m)]

\* line 333: what the error text starts with, after a cross mark symbol
ERROR_PREFIX == "Error: "

\* lines 332-339: the message saved for an exception
ErrorMessage(msg) ==
    [role |-> "assistant", content |-> ERROR_PREFIX \o msg, sources |-> <<>>]

\* faulty variant of Reply: an exception leaves no message
ReplyUnlessError ==
    IF outcome = "returned" THEN Append(messages, AnswerMessage(result, mode)) ELSE messages

\* the messages after the agent returned or raised
Reply ==
    IF outcome = "returned"
    THEN Append(messages, AnswerMessage(result, mode))
    ELSE Append(messages, ErrorMessage(exc))

\* render_chat_interface, lines 301-339: the reply is shown and saved
Respond ==
    /\ pc = "done"
    /\ Pending
    /\ messages' = Reply
    /\ op' = "idle"
    /\ pc' = "idle"
    /\ via' = "direct"
    /\ question' = ""
    /\ auto_route' = TRUE
    /\ doc_count' = 0
    /\ route' = ""
    /\ response' = <<>>
    /\ retrieved_docs' = <<>>
    /\ search_results' = EmptyDict
    /\ formatted_results' = ""
    /\ rag_result' = EmptyDict
    /\ web_result' = EmptyDict
    /\ outcome' = "none"
    /\ result' = EmptyDict
    /\ exc' = ""
    /\ log' = <<>>
    /\ UNCHANGED <<mode, store, keys>>

\* the chat application: questions are asked through the chat input only
NextApp ==
    \/ SelectMode
    \/ SubmitQuestion
    \/ RagCount
    \/ RagSearch
    \/ RagGenerate
    \/ WebSearch
    \/ WebGenerate
    \/ HybridCount
    \/ RouteCount
    \/ RouteSources
    \/ RouteClassify
    \/ Dispatch
    \/ Fusion
    \/ FusionGenerate
    \/ Respond

SpecApp == Init /\ [][NextApp]_vars

\* render_chat_interface, lines 315-322: how a source of a result is shown
RenderedAs(source) ==
    IF "str" \notin DOMAIN source
    THEN IF Get(source, "type", "") = "web" THEN "web link" ELSE "document"
    ELSE "document"

\* ------------------------------------------------------------ observations
\* the positions of the log holding a call of this name
Calls(name) == {i \in DOMAIN log : log[i].call = name}

\* the positions of the log holding a chat model step for this template
ModelCalls(name, template) == {i \in Calls(name) : log[i].val = template}

Returned == pc = "done" /\ outcome = "returned"
Raised == pc = "done" /\ outcome = "raised"

\* query_hybrid with auto_route has called route_query, whose count read is the
\* second event of the log
RouteCountRead == op = "query_hybrid" /\ auto_route /\ Len(log) >= 2

\* ------------------------------------------------------------------- claims

\* C1: whenever the document count read by route_query is 0, route_query
\* returns "web", and neither the classification call nor the lookup of source
\* names is made, for every question and every store.
C1_RouteShortCircuit ==
    (RouteCountRead /\ log[2].val = 0) =>
        /\ pc \notin {"route_sources", "route_classify"}
        /\ route = "web"
        /\ Calls("classify") = {}
        /\ ModelCalls("get_llm", "router") = {}
        /\ Calls("get_all_sources") = {}

\* route_query has read a count of 0 and has returned "web" to query_hybrid
C1_Witness ==
    /\ RouteCountRead /\ log[2].val = 0
    /\ pc = "dispatch" /\ route = "web"
    /\ question \in Questions

\* resp is label, in any letter case, between leading and trailing whitespace
IsLabel(resp, label) ==
    \E i \in 0..Len(resp), j \in 0..Len(resp) :
        /\ j - i = Len(label)
        /\ \A k \in 1..Len(label) : LowerChar(resp[i + k]) = label[k]
        /\ \A k \in 1..i : resp[k] \in Whitespace
        /\ \A k \in (j + 1)..Len(resp) : resp[k] \in Whitespace

\* the route the classifier response stands for
RouteFor(resp) ==
    IF IsLabel(resp, DOCUMENTS) THEN "documents"
    ELSE IF IsLabel(resp, WEB) THEN "web"
    ELSE "hybrid"

\* route_query has classified: its result and the raw response are in scope
Classified == pc = "dispatch" /\ Calls("classify") # {}

\* C2: when documents exist, route_query's result depends on the classifier
\* response only: a response that is one of the three labels up to letter case
\* and surrounding whitespace gives that label, every other response gives
\* "hybrid".
C2_RouteFromResponse ==
    Classified =>
        /\ route = RouteFor(response)
        /\ route \in {"documents", "web", "hybrid"}

\* an upper-case label between whitespace was accepted as "documents"
C2_Witness ==
    /\ Classified
    /\ response = <<" ">> \o Upper(DOCUMENTS) \o <<"\n">>
    /\ route = "documents"

\* the log positions of calls that returned, and of calls that raised
Succeeded(S) == {i \in S : log[i].ok}
Failed(S) == {i \in S : ~log[i].ok}

\* the chunks similarity search returned to this operation, in order
RetrievedDocs ==
    IF Succeeded(Calls("similarity_search")) # {}
    THEN log[CHOOSE i \in Succeeded(Calls("similarity_search")) : TRUE].val
    ELSE <<>>

\* the body the search API answered with
SerperResponse ==
    IF Succeeded(Calls("search_serper")) # {}
    THEN log[CHOOSE i \in Succeeded(Calls("search_serper")) : TRUE].val
    ELSE EmptyDict

\* query_rag raised: similarity search or its generation step failed
RagRaisedEv ==
    \/ Failed(Calls("similarity_search")) # {}
    \/ Failed(ModelCalls("generate", "rag") \cup ModelCalls("get_llm", "rag")) # {}

\* search_web raised: the search request or its generation step failed
WebRaisedEv ==
    \/ Failed(Calls("search_serper")) # {}
    \/ Failed(ModelCalls("generate", "web") \cup ModelCalls("get_llm", "web")) # {}

\* search_web ran and returned
WebSucceededEv == Succeeded(Calls("search_serper")) # {} /\ ~WebRaisedEv

\* query_hybrid is on, or has finished, its fusion path
OnFusionPath == op = "query_hybrid" /\ via = "fusion"

FusionReturned == OnFusionPath /\ Returned

\* a sequence without its repeated values, in order of first occurrence
RECURSIVE FirstOccurrences(_)
FirstOccurrences(s) ==
    IF s = <<>> THEN <<>>
    ELSE LET r == FirstOccurrences(SubSeq(s, 1, Len(s) - 1))
         IN  IF s[Len(s)] \in Range(r) THEN r ELSE Append(r, s[Len(s)])

\* the provenance entries of document names, and of organic results
DocEntries(names) == [i \in DOMAIN names |-> [type |-> "document", name |-> names[i]]]
WebEntries(organic) ==
    [i \in DOMAIN organic |->
        [type |-> "web",
         title |-> Get(organic[i], "title", "Unknown"),
         url |-> Get(organic[i], "link", "")]]

\* C3, as claimed: on the fusion path with both retrievals successful, the
\* sources are the distinct source names of the retrieved chunks in the order
\* they were retrieved, followed by the organic results in their order.
C3_RetrievalOrder ==
    (FusionReturned /\ ~RagRaisedEv /\ WebSucceededEv) =>
        result.sources =
            DocEntries(FirstOccurrences(SourceOf(RetrievedDocs)))
            \o WebEntries(Organic(SerperResponse))

\* C3, amended: on the fusion path with both retrievals successful, the sources
\* list has one document entry per distinct source name of the retrieved
\* chunks, in some order, followed by one web entry per organic result, in the
\* order of the organic results.
C3_DocumentsThenWeb ==
    (FusionReturned /\ ~RagRaisedEv /\ WebSucceededEv) =>
        LET names == Range(SourceOf(RetrievedDocs))
            n == Cardinality(names)
            organic == Organic(SerperResponse)
        IN  /\ Len(result.sources) = n + Len(organic)
            /\ \A i \in 1..n : result.sources[i].type = "document"
            /\ {result.sources[i].name : i \in 1..n} = names
            /\ SubSeq(result.sources, n + 1, n + Len(organic)) = WebEntries(organic)

\* two chunks of two sources and two organic results were merged
C3_Witness ==
    /\ FusionReturned /\ ~RagRaisedEv /\ WebSucceededEv
    /\ Cardinality(Range(SourceOf(RetrievedDocs))) = 2
    /\ Len(Organic(SerperResponse)) = 2
    /\ Organic(SerperResponse)[1] # Organic(SerperResponse)[2]

\* the placeholders the except clauses of query_hybrid can produce
ErrorMessages == {OPENAI_KEY_ERROR, SERPER_KEY_ERROR, SERPER_REQUEST_ERROR,
                  CHROMA_ERROR, LLM_ERROR}
DocumentErrorContexts == {"Error retrieving from documents: " \o m : m \in ErrorMessages}
WebErrorContexts == {"Error searching web: " \o m : m \in ErrorMessages}

\* the source names query_rag returned to this operation
RagCited ==
    IF Succeeded(ModelCalls("generate", "rag")) # {}
    THEN Range(SourceOf(RetrievedDocs))
    ELSE {}

\* C4: on the fusion path a failing query_rag or search_web does not stop the
\* other: search_web is called whatever query_rag did, only the fusion
\* generation can make query_hybrid raise, the failed source's context is an
\* "Error ...: <message>" placeholder, the other source's provenance is in the
\* result, and the result's mode is "hybrid".
C4_FailureIsolation ==
    (OnFusionPath /\ pc \in {"fusion_generate", "done"}) =>
        /\ Calls("search_serper") # {}
        /\ Raised => /\ log[Len(log)].call \in {"generate", "get_llm"}
                     /\ log[Len(log)].val = "hybrid"
        /\ RagRaisedEv => RagContext(rag_result) \in DocumentErrorContexts
        /\ WebRaisedEv => WebContext(web_result) \in WebErrorContexts
        /\ Returned =>
             /\ result.mode = "hybrid"
             /\ RagRaisedEv => result.rag_context \in DocumentErrorContexts
             /\ (RagRaisedEv /\ WebSucceededEv) =>
                    result.sources = WebEntries(Organic(SerperResponse))
             /\ WebRaisedEv =>
                    /\ Len(result.sources) = Cardinality(RagCited)
                    /\ {result.sources[i].name : i \in DOMAIN result.sources} = RagCited
                    /\ \A i \in DOMAIN result.sources : result.sources[i].type = "document"

\* similarity search failed, the web search succeeded and its results are cited
C4_Witness ==
    /\ FusionReturned
    /\ Failed(Calls("similarity_search")) # {}
    /\ WebSucceededEv
    /\ Len(result.sources) = 2
    /\ result.sources[1].type = "web"

\* provenance entries by origin
IsDocEntry(e) == "str" \in DOMAIN e \/ Get(e, "type", "") = "document"
IsWebEntry(e) == "url" \in DOMAIN e
DocName(e) == IF "str" \in DOMAIN e THEN e.str ELSE e.name

\* the document context given to the generator for this result
UsedContext(res) == IF "rag_context" \in DOMAIN res THEN res.rag_context ELSE res.context

\* C5: a returned result cites documents only if similarity search ran and
\* returned chunks, which are the context of the answer, and cites web results
\* only if the search request succeeded and its results were sent to the
\* generator; nothing is cited for a retrieval that failed or came back empty.
C5_ProvenanceIsUsed ==
    Returned =>
        LET docs == {i \in DOMAIN result.sources : IsDocEntry(result.sources[i])}
            webs == {i \in DOMAIN result.sources : IsWebEntry(result.sources[i])}
        IN  /\ docs \cup webs = DOMAIN result.sources
            /\ docs # {} =>
                 /\ RetrievedDocs # <<>>
                 /\ Succeeded(ModelCalls("generate", "rag")) # {}
                 /\ {DocName(result.sources[i]) : i \in docs} = Range(SourceOf(RetrievedDocs))
                 /\ UsedContext(result) = FormatContext(RetrievedDocs)
            /\ webs # {} =>
                 /\ Succeeded(Calls("search_serper")) # {}
                 /\ FormatSearchResults(SerperResponse) # NO_RESULTS_SENTINEL
                 /\ Succeeded(ModelCalls("generate", "web")) # {}
                 /\ Cardinality(webs) = Len(Organic(SerperResponse))

\* a result citing a document and a web page
C5_Witness ==
    /\ Returned
    /\ \E i, j \in DOMAIN result.sources :
         IsDocEntry(result.sources[i]) /\ IsWebEntry(result.sources[j])

\* C6: on the fusion path with a document count of 0 the document retriever is
\* not invoked, and the document context given to the fusion prompt and
\* returned as rag_context is "No document context available.".
C6_PlaceholderContext ==
    (OnFusionPath /\ doc_count = 0 /\ pc \in {"fusion_generate", "done"}) =>
        /\ Calls("similarity_search") = {}
        /\ RagContext(rag_result) = NO_DOC_CONTEXT
        /\ Returned => result.rag_context = NO_DOC_CONTEXT

\* what query_rag returns, given the calls it made
RagOutcomes ==
    IF log[Len(log)].call = "get_document_count" THEN {NoDocumentsResult}
    ELSE IF RetrievedDocs = <<>> THEN {NotFoundResult}
    ELSE {[answer |-> Answer("rag"),
           sources |-> [i \in DOMAIN o |-> PyStr(o[i])],
           context |-> FormatContext(RetrievedDocs)] :
            o \in Orderings(Range(SourceOf(RetrievedDocs)))}

\* what search_web returns, given the response of the search API
WebOutcome ==
    IF FormattedParts(SerperResponse) = <<>>
    THEN [answer |-> NO_WEB_RESULTS_ANSWER, sources |-> <<>>,
          raw_results |-> SerperResponse]
    ELSE [answer |-> Answer("web"), sources |-> ExtractSources(SerperResponse),
          raw_results |-> SerperResponse]

\* the router has decided and query_hybrid has acted on the decision
Routed(label) ==
    op = "query_hybrid" /\ auto_route /\ route = label /\ pc # "dispatch"

\* C7: with auto_route, a "documents" (resp. "web") decision makes query_hybrid
\* return query_rag's (resp. search_web's) result with mode set to that label,
\* the other source is not consulted and no fusion generation is made; without
\* auto_route the router is never called and the fusion path is taken.
C7_Delegation ==
    /\ Routed("documents") =>
         /\ pc \in {"rag_count", "rag_search", "rag_generate", "done"}
         /\ Calls("search_serper") = {}
         /\ ModelCalls("generate", "web") \cup ModelCalls("generate", "hybrid") = {}
         /\ ModelCalls("get_llm", "web") \cup ModelCalls("get_llm", "hybrid") = {}
         /\ Returned => result \in {Put(r, "mode", "documents") : r \in RagOutcomes}
    /\ Routed("web") =>
         /\ pc \in {"web_search", "web_generate", "done"}
         /\ Calls("similarity_search") = {}
         /\ ModelCalls("generate", "rag") \cup ModelCalls("generate", "hybrid") = {}
         /\ ModelCalls("get_llm", "rag") \cup ModelCalls("get_llm", "hybrid") = {}
         /\ Returned => result = Put(WebOutcome, "mode", "web")
    /\ (op = "query_hybrid" /\ ~auto_route) =>
         /\ pc \notin {"route_count", "route_sources", "route_classify", "dispatch"}
         /\ route = ""
         /\ Calls("classify") \cup Calls("get_all_sources") = {}
         /\ ModelCalls("get_llm", "router") = {}
         /\ pc \notin {"hybrid_count", "fusion"} => via = "fusion"
         /\ Returned => result.mode = "hybrid"

\* the router chose "documents" and query_rag's answer came back tagged
C7_Witness ==
    /\ Routed("documents")
    /\ Returned
    /\ result.mode = "documents"
    /\ Len(result.sources) = 2
    /\ result.answer = Answer("rag")

\* C8: query_rag on a document count of 0 returns the "No documents have been
\* uploaded yet" message with no sources and an empty context, without
\* similarity search and without generation; when similarity search returns no
\* chunk it returns the "couldn't find any relevant information" message with
\* no sources and without generation.
C8_EmptyIndexFallback ==
    (op = "query_rag" /\ log # <<>>) =>
        /\ log[1].val = 0 =>
             /\ Returned
             /\ result = [answer |-> NO_DOCUMENTS_ANSWER, sources |-> <<>>, context |-> ""]
             /\ Len(log) = 1
        /\ (Len(log) >= 2 /\ log[2].ok /\ log[2].val = <<>>) =>
             /\ Returned
             /\ result = [answer |-> NOT_FOUND_ANSWER, sources |-> <<>>, context |-> ""]
             /\ Len(log) = 2

\* query_rag answered from an empty index
C8_Witness ==
    /\ op = "query_rag"
    /\ Returned
    /\ log[1].val = 0
    /\ result.answer = NO_DOCUMENTS_ANSWER

\* the response has no organic result, no featured answer or snippet, and no
\* knowledge graph title or description
NothingUsable(r) ==
    /\ Get(r, "organic", <<>>) = <<>>
    /\ \A k \in {"answer", "snippet"} : Get(Get(r, "answerBox", EmptyDict), k, "") = ""
    /\ \A k \in {"title", "description"} : Get(Get(r, "knowledgeGraph", EmptyDict), k, "") = ""

\* the steps of this operation that entered the generator
GeneratorCalls == Calls("generate") \cup Calls("get_llm")

\* C9: when the search response has nothing usable, search_web returns the
\* "couldn't find any relevant web search results" message with no sources and
\* does not enter the generator; for every other response it enters the
\* generator exactly once, and a result is returned only from a generation call
\* that succeeded.
C9_SentinelSkipsGeneration ==
    (op = "search_web" /\ Succeeded(Calls("search_serper")) # {}) =>
        /\ NothingUsable(SerperResponse) =>
             /\ Returned
             /\ result = [answer |-> NO_WEB_RESULTS_ANSWER, sources |-> <<>>,
                          raw_results |-> SerperResponse]
             /\ GeneratorCalls = {}
        /\ ~NothingUsable(SerperResponse) =>
             \/ pc = "web_generate" /\ GeneratorCalls = {}
             \/ /\ pc = "done"
                /\ Cardinality(GeneratorCalls) = 1
                /\ Returned <=> Succeeded(Calls("generate")) # {}
                /\ Returned => result.answer = Answer("web")

\* a response holding only a knowledge graph without title and description
\* was answered with the fixed message
C9_Witness ==
    /\ op = "search_web"
    /\ Returned
    /\ "knowledgeGraph" \in DOMAIN SerperResponse
    /\ result.answer = NO_WEB_RESULTS_ANSWER

\* C10: every provenance entry of every result of query_hybrid carries its
\* origin as its type, "document" or "web", on every route, so that a web
\* entry is told from a document entry by its tag.
C10_EntriesTagged ==
    (Returned /\ op = "query_hybrid") =>
        \A i \in DOMAIN result.sources :
            LET e == result.sources[i]
            IN  /\ "str" \notin DOMAIN e
                /\ Get(e, "type", "") \in {"document", "web"}
                /\ IsWebEntry(e) <=> RenderedAs(e) = "web link"

\* the steps of this operation that ran into a missing API credential:
\* get_llm without the OpenAI key, search_serper without the Serper key
CredentialFailures ==
    {i \in DOMAIN log :
        /\ ~log[i].ok
        /\ \/ log[i].call = "get_llm"
           \/ log[i].call = "search_serper" /\ log[i].val = SERPER_KEY_ERROR}

\* C11: an operation that reached a component whose API credential is missing
\* ends by raising that configuration error to its caller; it does not return
\* a result, on any route of query_hybrid, the fusion path included.
C11_CredentialErrorRaised ==
    (pc = "done" /\ CredentialFailures # {}) =>
        /\ Raised
        /\ exc \in {OPENAI_KEY_ERROR, SERPER_KEY_ERROR}

\* C12: on the fusion path the only generation call is the hybrid-fusion call:
\* query_rag and search_web, which gather the two contexts, do not enter the
\* generator, and a returned result comes from exactly one generation call.
C12_OneGenerationCall ==
    OnFusionPath =>
        /\ ModelCalls("generate", "rag") = {}
        /\ ModelCalls("generate", "web") = {}
        /\ Returned => Cardinality(Calls("generate")) = 1

\* the operation asks one source only: query_rag, search_web, or query_hybrid
\* delegating to one of them
SingleSource ==
    \/ op \in {"query_rag", "search_web"}
    \/ op = "query_hybrid" /\ auto_route /\ via = "routed"

\* the similarity searches and search requests of this operation that failed
RetrievalFailures == Failed(Calls("similarity_search") \cup Calls("search_serper"))

\* C13: in a single-source query a failing similarity search or search request
\* ends the operation at once with that exception: nothing is returned, no
\* fallback answer takes its place, and no further call is made.
C13_FailurePropagates ==
    (SingleSource /\ RetrievalFailures # {}) =>
        /\ Raised
        /\ result = EmptyDict
        /\ RetrievalFailures = {Len(log)}
        /\ exc = log[Len(log)].val

\* the router chose "web", the search request failed and query_hybrid raised
C13_Witness ==
    /\ Routed("web")
    /\ Raised
    /\ Failed(Calls("search_serper")) # {}
    /\ exc = SERPER_REQUEST_ERROR

\* the three kinds of context block of a search response, each as the list of
\* the blocks it contributes
KnowledgeGraphBlock(r) ==
    LET g == Get(r, "knowledgeGraph", EmptyDict)
    IN  IF Get(g, "title", "") # "" \/ Get(g, "description", "") # ""
        THEN <<"[Knowledge Graph]\nTitle: " \o Get(g, "title", "")
                 \o "\nDescription: " \o Get(g, "description", "") \o "\n">>
        ELSE <<>>

FeaturedAnswerBlock(r) ==
    LET b == Get(r, "answerBox", EmptyDict)
    IN  IF Get(b, "answer", "") # "" THEN <<"[Featured Answer]\n" \o b.answer \o "\n">>
        ELSE IF Get(b, "snippet", "") # "" THEN <<"[Featured Answer]\n" \o b.snippet \o "\n">>
        ELSE <<>>

OrganicBlocks(r) ==
    LET o == Get(r, "organic", <<>>)
    IN  [i \in 1..Len(o) |->
            "[Result " \o ToString(i) \o "]\nTitle: " \o Get(o[i], "title", "No title")
            \o "\nSnippet: " \o Get(o[i], "snippet", "No description")
            \o "\nURL: " \o Get(o[i], "link", "") \o "\n"]

BlocksInOrder(r) == KnowledgeGraphBlock(r) \o FeaturedAnswerBlock(r) \o OrganicBlocks(r)

\* C14: the context format_search_results builds from a search response is the
\* knowledge-graph block (when it has a title or a description), then the
\* featured answer (when it has an answer or a snippet), then the organic
\* results numbered from 1 in the order returned, joined by newlines; it is
\* "No search results found." exactly when there is no block at all.  Stated
\* of the response search_serper has just returned.
C14_BlockOrder ==
    (log # <<>> /\ log[Len(log)].call = "search_serper" /\ log[Len(log)].ok) =>
        LET r == log[Len(log)].val
            blocks == BlocksInOrder(r)
        IN  /\ FormattedParts(r) = blocks
            /\ FormatSearchResults(r) =
                 IF blocks = <<>> THEN "No search results found." ELSE Join(blocks, "\n")
            /\ IF blocks = <<>>
               THEN Returned \/ pc = "fusion_generate"
               ELSE /\ pc = "web_generate"
                    /\ formatted_results = Join(blocks, "\n")
                    /\ formatted_results # "No search results found."

\* search_web holds the context of a response with a knowledge graph, a
\* featured answer and two organic results
C14_Witness ==
    /\ pc = "web_generate"
    /\ KnowledgeGraphBlock(search_results) # <<>>
    /\ FeaturedAnswerBlock(search_results) # <<>>
    /\ Len(OrganicBlocks(search_results)) = 2
    /\ formatted_results = Join(BlocksInOrder(search_results), "\n")

\* the four kinds of collaborator request of query_hybrid, as log positions
Classifications == Calls("classify")
SimilaritySearches == Calls("similarity_search")
SearchRequests == Calls("search_serper")
FusionGenerations == ModelCalls("generate", "hybrid")

\* every call of A precedes every call of B
Before(A, B) == \A i \in A, j \in B : i < j

\* C15: one query_hybrid call issues at most one routing classification, one
\* similarity search, one web search request and one fusion generation, in
\* that order; none is issued a second time, whether it failed or not.
C15_OnceInOrder ==
    op = "query_hybrid" =>
        /\ Cardinality(Classifications) <= 1
        /\ Cardinality(SimilaritySearches) <= 1
        /\ Cardinality(SearchRequests) <= 1
        /\ Cardinality(FusionGenerations) <= 1
        /\ Before(Classifications,
                  SimilaritySearches \cup SearchRequests \cup FusionGenerations)
        /\ Before(SimilaritySearches, SearchRequests \cup FusionGenerations)
        /\ Before(SearchRequests, FusionGenerations)
        /\ \A i \in Failed(FusionGenerations \cup Classifications) : i = Len(log)

\* all four requests were made, the similarity search failed and was not
\* repeated
C15_Witness ==
    /\ FusionReturned
    /\ Classifications # {}
    /\ Failed(SimilaritySearches) # {}
    /\ SearchRequests # {}
    /\ FusionGenerations # {}

\* user and assistant messages alternate, a user message first
RolesAlternate ==
    \A i \in DOMAIN messages :
        messages[i].role = IF i % 2 = 1 THEN "user" ELSE "assistant"

\* an assistant message is an answer with its sources and mode, or an error
\* message with an empty sources list
IsAnswerEntry(m) == DOMAIN m = {"role", "content", "sources", "mode"}
IsErrorEntry(m) == DOMAIN m = {"role", "content", "sources"} /\ m.sources = <<>>

\* the state of the messages between and during questions
HistoryShape ==
    /\ RolesAlternate
    /\ Idle => Len(messages) % 2 = 0
    /\ ~Idle => Len(messages) % 2 = 1
    /\ \A i \in DOMAIN messages :
         i % 2 = 0 => IsAnswerEntry(messages[i]) \/ IsErrorEntry(messages[i])

\* what one step does to the messages: a submitted question adds the user
\* message, the end of its processing adds the answer or the error message,
\* and no step changes or removes a message
HistoryStep ==
    /\ Len(messages') >= Len(messages)
    /\ SubSeq(messages', 1, Len(messages)) = messages
    /\ (Idle /\ op' # "idle") =>
          messages' = Append(messages, [role |-> "user", content |-> question'])
    /\ (~Idle /\ op' = "idle") =>
          /\ Len(messages') = Len(messages) + 1
          /\ LET m == messages'[Len(messages')]
             IN  IF outcome = "returned"
                 THEN /\ IsAnswerEntry(m)
                      /\ m.content = result.answer
                      /\ m.sources = result.sources
                      /\ m.mode = IF "mode" \in DOMAIN result THEN result.mode ELSE mode
                 ELSE /\ outcome = "raised"
                      /\ IsErrorEntry(m)
                      /\ m.content = "Error: " \o exc
    /\ (Idle <=> op' = "idle") => messages' = messages

\* C16: the session's messages alternate between user and assistant, starting
\* with a user message; every submitted question adds one user message and,
\* when it is answered or fails with an exception, one assistant message (the
\* answer with its sources and mode, or an error message with no sources); no
\* message already in the session is changed or removed.
C16_HistoryAlternates == [](HistoryShape) /\ [][HistoryStep]_vars

\* two questions were asked: the first failed, the second was answered with
\* sources
C16_Witness ==
    /\ Idle
    /\ Len(messages) = 4
    /\ IsErrorEntry(messages[2])
    /\ IsAnswerEntry(messages[4])
    /\ messages[4].sources # <<>>

\* delete_documents_by_source has just run
Deleted == op = "delete_documents_by_source" /\ pc = "done"

\* C17: delete_documents_by_source(s) removes the chunks whose source is s and
\* no other: s is no longer among the sources, the count has dropped by the
\* number of chunks of s, every other chunk is stored as before, and for a
\* source that is not stored (a second call included) the collection is left
\* as it was.
C17_DeleteBySource ==
    Deleted =>
        LET s == log[1].val.source
            before == log[1].val.before
            chunks == {id \in DOMAIN before : before[id] = s}
        IN  /\ DOMAIN store = DOMAIN before \ chunks
            /\ \A id \in DOMAIN store : store[id] = before[id]
            /\ s \notin AllSources(store)
            /\ AllSources(store) = AllSources(before) \ {s}
            /\ Count(store) = Count(before) - Cardinality(chunks)
            /\ s \notin AllSources(before) => store = before

\* one of two stored sources was deleted, the chunk of the other is still there
C17_Witness ==
    /\ Deleted
    /\ Cardinality(AllSources(log[1].val.before)) = 2
    /\ Count(store) = 1
    /\ AllSources(store) = AllSources(log[1].val.before) \ {log[1].val.source}

\* both count reads of a routed query_hybrid call came back 0
CountReadsZero ==
    /\ op = "query_hybrid" /\ auto_route
    /\ Len(log) >= 2
    /\ log[1].val = 0
    /\ log[2].val = 0

\* C18: get_document_count does not raise and reports a failed read as 0; a
\* query_hybrid call with auto_route whose count reads are 0 goes the "web"
\* way, with no classification call and no use of the documents, and returns
\* search_web's result or raises search_web's error, whether or not chunks
\* are stored.
C18_FailedCountIsZero ==
    (op = "query_hybrid" /\ auto_route) =>
        /\ \A i \in Calls("get_document_count") :
             /\ log[i].ok
             /\ log[i].val \in {0, Count(store)}
             /\ ~keys.openai => log[i].val = 0
        /\ CountReadsZero =>
             /\ route = "web"
             /\ pc \in {"dispatch", "web_search", "web_generate", "done"}
             /\ Calls("classify") \cup Calls("get_all_sources") = {}
             /\ Calls("similarity_search") = {}
             /\ ModelCalls("get_llm", "router") \cup ModelCalls("generate", "rag") = {}
             /\ Returned => result = Put(WebOutcome, "mode", "web")
             /\ Raised => exc \in {SERPER_KEY_ERROR, SERPER_REQUEST_ERROR,
                                   OPENAI_KEY_ERROR, LLM_ERROR}

\* chunks are stored, both count reads failed, and the web answer came back
C18_Witness ==
    /\ CountReadsZero
    /\ Count(store) > 0
    /\ Returned
    /\ result.mode = "web"
    /\ result.answer = Answer("web")

====
